---- MODULE Spec2Model ----
(***************************************************************************)
(* Transfer-news linking and merge engine of n17-dash.                     *)
(*                                                                         *)
(* The model covers LLMService (backend/app/services/llm_service.py): the  *)
(* pure merge _update_player_data, the orchestrator process_pending_news   *)
(* with its processed-id file, process_news_file, link_news_to_player, and *)
(* the add-timeline-event endpoint of backend/app/routers/api.py.          *)
(*                                                                         *)
(* A JSON value that may be absent, a string, a dict or a list is modelled *)
(* as a record with a `kind` tag, so that values of different Python types *)
(* stay comparable.  The wall-clock stamp datetime.now() put on an event   *)
(* is the token "now": no claim checked here depends on its value.         *)
(***************************************************************************)
EXTENDS Integers, Sequences, FiniteSets, TLC

\* ------------------------------------------------------------------ bounds
MaxTimeline == 2      \* longest timeline a record under pure merges may reach

\* ------------------------------------------------------------ data values
Absent == "<absent>"                 \* key not present in the oracle's dict

status_levels ==
  [s \in {"hearsay", "rumors", "developing", "here we go!"} |->
     CASE s = "hearsay" -> 0
       [] s = "rumors" -> 1
       [] s = "developing" -> 2
       [] s = "here we go!" -> 3]

\* a faulty variant of the lookup: a string outside the enum ranks above
\* every level
StatusLevelUnknownOnTop(s) == IF s \in DOMAIN status_levels THEN status_levels[s] ELSE 4

\* status_levels.get(s, 0)
StatusLevel(s) == IF s \in DOMAIN status_levels THEN status_levels[s] ELSE 0

NewsIds == {"n1", "n2"}

\* suggestions the oracle may return for transfer_status: the four enum
\* strings and one string outside the enum
StatusSuggestions == {Absent, "hearsay", "rumors", "developing", "here we go!", "confirmed"}
DirectionSuggestions == {Absent, "incoming", "outgoing"}

\* one element of a timeline suggestion: a bare string, or a dict which may
\* itself carry a "news_ids" key (hasIds) that the merge overrides
StrItem == [kind |-> "str", text |-> "t", hasIds |-> FALSE, ids |-> <<>>]
DictItem == [kind |-> "dict", text |-> "t", hasIds |-> FALSE, ids |-> <<>>]
DictItemWithIds == [kind |-> "dict", text |-> "t", hasIds |-> TRUE, ids |-> <<>>]

TimelineSuggestions ==
  { [kind |-> "absent", items |-> <<>>],
    [kind |-> "str", items |-> <<StrItem>>],
    [kind |-> "dict", items |-> <<DictItem>>],
    [kind |-> "list", items |-> <<StrItem, DictItemWithIds>>] }

\* one related-club suggestion: a bare string or a {name, role} dict
StrClub == [kind |-> "str", name |-> "A", role |-> ""]
DictClubInterested == [kind |-> "dict", name |-> "A", role |-> "interested"]
DictClubDestination == [kind |-> "dict", name |-> "A", role |-> "destination"]

ClubListSuggestions ==
  { [present |-> FALSE, items |-> <<>>],
    [present |-> TRUE, items |-> <<StrClub>>],
    [present |-> TRUE, items |-> <<StrClub, DictClubInterested>>],
    [present |-> TRUE, items |-> <<DictClubDestination, StrClub>>] }

\* the dict returned by _analyze_with_gpt4 for the detailed analysis
Deltas ==
  [ transfer_status : StatusSuggestions,
    direction : DirectionSuggestions,
    timeline : TimelineSuggestions,
    related_clubs : ClubListSuggestions ]

\* ------------------------------------------------------------- the merge
\* event_data built from one element of a list suggestion or from a dict
EventData(item, news_id) ==
  IF item.kind = "str"
  THEN [form |-> "event", text |-> item.text, date |-> "now", news_ids |-> <<news_id>>]
  ELSE [form |-> "dict", text |-> item.text, date |-> "now", news_ids |-> <<news_id>>]

\* a faulty variant of the timeline branch: new events are put in front
NewEventsPrepended(timeline, sugg, news_id) ==
  IF sugg.kind \in {"list", "dict"}
  THEN [i \in 1..Len(sugg.items) |-> EventData(sugg.items[i], news_id)] \o timeline
  ELSE timeline

\* lines 285-309: the events appended for a timeline suggestion
AppendEvents(timeline, sugg, news_id) ==
  IF sugg.kind \in {"list", "dict"}
  THEN timeline \o [i \in 1..Len(sugg.items) |-> EventData(sugg.items[i], news_id)]
  ELSE timeline

\* a faulty variant of the status branch: a higher suggestion moves the status
\* up by one level only
StatusRaisedOneLevel(status, suggestion) ==
  IF suggestion = Absent \/ StatusLevel(suggestion) <= StatusLevel(status) THEN status
  ELSE CHOOSE s \in DOMAIN status_levels : status_levels[s] = StatusLevel(status) + 1

\* a faulty variant of the status branch: any suggestion replaces the status
StatusAlwaysApplied(status, suggestion) ==
  IF suggestion = Absent THEN status ELSE suggestion

\* a faulty variant of the status branch: without a suggestion the status
\* falls back to the default
StatusResetWhenAbsent(status, suggestion) ==
  IF suggestion = Absent THEN "hearsay"
  ELSE IF StatusLevel(suggestion) > StatusLevel(status) THEN suggestion
  ELSE status

\* lines 311-323
PromoteStatus(status, suggestion) ==
  IF suggestion = Absent THEN status
  ELSE IF StatusLevel(suggestion) > StatusLevel(status) THEN suggestion
  ELSE status

\* lines 333-341
ClubData(club) ==
  IF club.kind = "str" THEN [name |-> club.name, role |-> "interested"]
  ELSE [name |-> club.name, role |-> club.role]

ClubKey(c) == <<c.name, c.role>>

\* d[key(c)] = c on a Python dict kept as the list of its values: a key
\* already present keeps its position and takes the new value
DictPut(values, c) ==
  IF \E i \in 1..Len(values) : ClubKey(values[i]) = ClubKey(c)
  THEN [i \in 1..Len(values) |-> IF ClubKey(values[i]) = ClubKey(c) THEN c ELSE values[i]]
  ELSE Append(values, c)

RECURSIVE DictFromClubs(_, _)
DictFromClubs(values, clubs) ==
  IF clubs = <<>> THEN values
  ELSE DictFromClubs(DictPut(values, Head(clubs)), Tail(clubs))

\* a faulty variant of the deduplication: the list is left as extended
ClubsConcatenated(clubs) == clubs

\* lines 344-347: list({(name, role): c for c in clubs}.values())
DedupClubs(clubs) == DictFromClubs(<<>>, clubs)

MergeClubs(current_clubs, sugg) ==
  IF sugg.present
  THEN DedupClubs(current_clubs \o [i \in 1..Len(sugg.items) |-> ClubData(sugg.items[i])])
  ELSE current_clubs

\* _update_player_data(current, new, news_id)
update_player_data(current, new, news_id) ==
  [ current EXCEPT
      !.timeline = AppendEvents(current.timeline, new.timeline, news_id),
      !.transfer_status = PromoteStatus(current.transfer_status, new.transfer_status),
      !.direction = IF new.direction = Absent THEN current.direction ELSE new.direction,
      !.related_clubs = MergeClubs(current.related_clubs, new.related_clubs) ]

\* line 277, result = copy.deepcopy(current): the fields of result that are
\* the very objects of current.  A shallow copy would share the lists.
SharedAfterShallowCopy == {"timeline", "related_clubs"}
SharedAfterDeepCopy == {}

\* the caller's record after the call: of the merge's writes only
\* timeline.append (lines 302, 309) changes an object in place; the other
\* fields of result are bound to new values
CurrentAfterCall(current, result) ==
  [ current EXCEPT
      !.timeline = IF "timeline" \in SharedAfterDeepCopy THEN result.timeline ELSE @ ]

\* the record created for a player seen for the first time (lines 484-490)
NewPlayerData(player_id, name) ==
  [ player_id |-> player_id, canonical_name |-> name, transfer_status |-> "hearsay",
    direction |-> "none", timeline |-> <<>>, related_clubs |-> <<>> ]

\* ------------------------------------------------------- names and ids
\* A player name is the sequence of its whitespace-separated tokens, in lower
\* case (name.lower().strip() followed by split()).
NameRose == <<"danny", "rose">>      \* found by the external search only
NameTel == <<"mathys", "tel">>       \* listed in manual_player_mappings.json
NameNobody == <<"nobody">>           \* known to no source
NameRomano == <<"fabrizio", "romano">>   \* a journalist of KNOWN_JOURNALISTS
NoName == <<>>

PlayerIds == {1, 2, 3}
NoId == 0                            \* None

name_variations ==
  [t \in {"dan", "danny", "mike", "micky", "alex", "rob", "bob", "jim", "jimmy",
          "tom", "tommy", "bill", "billy", "will"} |->
     CASE t \in {"dan", "danny"} -> "daniel"
       [] t \in {"mike", "micky"} -> "michael"
       [] t = "alex" -> "alexander"
       [] t \in {"rob", "bob"} -> "robert"
       [] t \in {"jim", "jimmy"} -> "james"
       [] t \in {"tom", "tommy"} -> "thomas"
       [] t \in {"bill", "billy", "will"} -> "william"]

\* name.startswith(prefix) for a prefix 'mr ' or 'sir ': the word and a space
StripPrefix(name, word) ==
  IF Len(name) >= 2 /\ Head(name) = word THEN Tail(name) ELSE name

\* _normalize_player_name
normalize_player_name(name) ==
  LET parts == StripPrefix(StripPrefix(name, "mr"), "sir") IN
  IF Len(parts) > 0 /\ parts[1] \in DOMAIN name_variations
  THEN <<name_variations[parts[1]]>> \o Tail(parts)
  ELSE parts

\* the sources of _get_player_id other than the persisted records
player_mappings == { [name |-> NameTel, id |-> 2] }
Squad == {}
\* what the external search knows: search_player(name)[0]['id'], or nothing
SearchDirectory(name) == IF name = NameRose THEN 1 ELSE NoId

\* a footballer of the external directory who is not the person named but
\* scores above the threshold against the name (F. Romano against
\* "Fabrizio Romano": 0.6 for the last name, 0.2 for the initial); whether
\* the search returns him depends on the directory of the day
Namesake(name) == IF name = NameRomano THEN 3 ELSE NoId

\* outcomes of awaiting search_player: its answer, or the request raising
SearchOutcomes(name) ==
  { [raised |-> FALSE, id |-> SearchDirectory(name)], [raised |-> TRUE, id |-> NoId] }
  \cup (IF Namesake(name) # NoId THEN {[raised |-> FALSE, id |-> Namesake(name)]} ELSE {})

KNOWN_JOURNALISTS == { NameRomano }

\* ------------------------------------------------------- oracle answers
\* one entry of initial_analysis['players']
Mention(nm) == [name |-> nm, tottenham_role |-> TRUE, has_name |-> TRUE]
MentionWithoutRole(nm) == [name |-> nm, tottenham_role |-> FALSE, has_name |-> TRUE]
MentionWithoutName == [name |-> NoName, tottenham_role |-> TRUE, has_name |-> FALSE]

\* the players lists the initial analysis may return; the empty list is also
\* what a failed or malformed oracle answer is turned into
MentionLists ==
  { <<>>,
    <<Mention(NameRose)>>,
    <<Mention(NameRose), Mention(NameTel)>>,
    <<Mention(NameNobody), Mention(NameRose)>>,
    <<Mention(NameRose), MentionWithoutName>>,
    <<MentionWithoutRole(NameRose), Mention(NameTel)>> }

\* the detailed analyses the orchestrated operations may receive
ErrorDelta ==
  [ transfer_status |-> Absent, direction |-> Absent,
    timeline |-> [kind |-> "absent", items |-> <<>>],
    related_clubs |-> [present |-> FALSE, items |-> <<>>] ]
RumorDelta ==
  [ transfer_status |-> "rumors", direction |-> "incoming",
    timeline |-> [kind |-> "dict", items |-> <<DictItem>>],
    related_clubs |-> [present |-> TRUE, items |-> <<StrClub>>] ]
OrchDeltas == {ErrorDelta, RumorDelta}

\* what the chat-completion call gives back: a JSON object (its "players"
\* list and its update fields), text that json.loads rejects (`delta` is
\* what the broken text was about to say), or an exception
JsonReply(players, delta) == [kind |-> "json", players |-> players, delta |-> delta]
MalformedReply == [kind |-> "text", players |-> <<Mention(NameRose)>>, delta |-> RumorDelta]
FailedCall == [kind |-> "raised", players |-> <<>>, delta |-> ErrorDelta]

\* a faulty variant of the boundary: what can be read off a broken answer is used
AnalyzeSalvaging(reply) ==
  [error |-> reply.kind # "json", players |-> reply.players, delta |-> reply.delta]

\* _analyze_with_gpt4: the parsed object, or {"error": ..., "players": []}
analyze_with_gpt4(reply) ==
  IF reply.kind = "json"
  THEN [error |-> FALSE, players |-> reply.players, delta |-> reply.delta]
  ELSE [error |-> TRUE, players |-> <<>>, delta |-> ErrorDelta]

\* the answers to the initial analysis in the service at large
InitialReplies == { JsonReply(players, ErrorDelta) : players \in MentionLists }

\* ------------------------------------------------------------- the store
\* links/player_<k>.json: absent, a complete JSON document, or a torn one
NoData == NewPlayerData(NoId, NoName)
AbsentFile == [state |-> "absent", data |-> NoData]
TornFile == [state |-> "torn", data |-> NoData]
OkFile(data) == [state |-> "ok", data |-> data]

\* a faulty variant of the write: the links directory is emptied first
WriteClearingOthers(store, k, data) ==
  [ j \in DOMAIN store |-> IF j = k THEN OkFile(data) ELSE AbsentFile ]

\* open(player_file, 'w') and json.dump (lines 505-506 and 785-786): the one
\* file player_<k>.json is replaced
WritePlayer(store, k, data) == [store EXCEPT ![k] = OkFile(data)]

\* news/<n>.json as _create_news_file writes it for a link post: selftext is
\* empty, so "content" is the empty string; "tier" comes from the flair
NoContent == "<empty>"
NoPost == "none"
NewsFile == [content |-> NoContent, tier |-> 2, reddit_id |-> NoPost]

\* the Reddit posts the news files n1, n2, n3 were created for
PostIds == {"p1", "p2", "p3"}
PostOf(n) == CASE n = "n1" -> "p1" [] n = "n2" -> "p2" [] OTHER -> "p3"

\* _load_processed_posts (lines 56-73): one entry per news file, under the
\* file's reddit_id
load_processed_posts(files) ==
  [ post \in { files[n].reddit_id : n \in DOMAIN files } |->
      LET n == CHOOSE m \in DOMAIN files : files[m].reddit_id = post
      IN  [news_id |-> n, tier |-> files[n].tier] ]

\* no pure-function call is being followed
NoCall == [fn |-> "none"]

\* ------------------------------------------------------------------ state
Runs == {"bg", "now"}   \* process_pending_news: news_processor loop, /reddit/check-now
FileRuns == {"re"}      \* /links/reprocess-unlinked, calling process_news_file
Procs == Runs \cup FileRuns
Entry(p) == IF p \in Runs THEN "pending" ELSE "file"
NoItem == "none"

VARIABLES
  cur,        \* a player record under a sequence of pure merges
  suggested,  \* the transfer_status suggestion of the last merge applied to cur
  links,      \* links[k]: the file links/player_<k>.json
  processed,  \* the ids in processed_news.json
  run,        \* run[p]: the coroutine p, suspended at one of its awaits
  link,       \* the link_news_to_player call in flight
  appended,   \* appended[k]: events appended to player k by completed writes
  budget,     \* operations that may still be started
  news,       \* news[n]: the fields of news/<n>.json that a later write may touch
  processed_posts,  \* RedditService.processed_posts: post id -> {news_id, tier}
  call        \* one call of a pure function: its arguments, then its result

vars ==
  <<cur, suggested, links, processed, run, link, appended, budget, news,
    processed_posts, call>>
mergeVars == <<cur, suggested>>
pureVars == <<call>>
storeVars == <<links, processed, run, link, appended, budget>>

\* what is remembered of the item a coroutine handled last, until its next step
NoOutcome ==
  [ item |-> NoItem, fault |-> "none", unresolved |-> FALSE, complete |-> FALSE,
    failed |-> FALSE ]

IdleRun ==
  [ pc |-> "idle", unprocessed |-> <<>>, attempted |-> <<>>, item |-> NoItem,
    mentions |-> <<>>, rest |-> <<>>, name |-> NoName, pid |-> NoId, data |-> NoData,
    unresolved |-> FALSE, merged |-> {}, inv_merged |-> {}, last |-> NoOutcome,
    failed |-> FALSE, oracle_failed |-> {}, write_failed |-> FALSE,
    returned |-> "None" ]

IdleLink == [pc |-> "idle", pid |-> NoId, news_id |-> NoItem, data |-> NoData]

FilesInit(ops, news_ids) ==
  /\ links = [k \in PlayerIds |-> AbsentFile]
  /\ processed = {}
  /\ run = [p \in Procs |-> IdleRun]
  /\ link = IdleLink
  /\ appended = [k \in PlayerIds |-> 0]
  /\ budget = ops
  /\ news = [n \in news_ids |-> [NewsFile EXCEPT !.reddit_id = PostOf(n)]]
  /\ processed_posts =
       load_processed_posts([n \in news_ids |-> [NewsFile EXCEPT !.reddit_id = PostOf(n)]])

StoreInitWith(ops, news_ids) == FilesInit(ops, news_ids) /\ call = NoCall

StoreInit(ops) == StoreInitWith(ops, NewsIds)

RecordInit ==
  /\ cur = NewPlayerData(1, NameRose)
  /\ suggested = Absent

MergeInit == RecordInit /\ StoreInit(0)

\* one call of _update_player_data on the record
Merge(new, news_id) ==
  LET result == update_player_data(cur, new, news_id) IN
  /\ Len(result.timeline) <= MaxTimeline
  /\ cur' = result
  /\ suggested' = new.transfer_status
  /\ UNCHANGED <<storeVars, pureVars, news, processed_posts>>

MergeNext == \E new \in Deltas, news_id \in NewsIds : Merge(new, news_id)

MergeSpec == MergeInit /\ [][MergeNext]_vars

\* ------------------------------------------------------ the orchestrator
MaxOps == 2           \* operations (runs, endpoint calls) started in a behaviour
MaxEntryCalls == 1    \* calls made where the two entry points are compared

\* the files whose normalized canonical_name equals the normalized query
\* (lines 118-126; a file that does not parse is passed over)
MatchingLinks(name, store) ==
  { k \in PlayerIds : /\ store[k].state = "ok"
                      /\ normalize_player_name(store[k].data.canonical_name)
                           = normalize_player_name(name) }

\* a faulty variant of the local lookup: the manual mappings are consulted
\* before the persisted records
MappingsBeforeRecords(name, store, mappings, squad) ==
  IF \E m \in mappings : normalize_player_name(m.name) = normalize_player_name(name)
  THEN (CHOOSE m \in mappings :
            normalize_player_name(m.name) = normalize_player_name(name)).id
  ELSE IF MatchingLinks(name, store) # {}
  THEN store[CHOOSE k \in MatchingLinks(name, store) : TRUE].data.player_id
  ELSE IF \E q \in squad : normalize_player_name(q.name) = normalize_player_name(name)
  THEN (CHOOSE q \in squad :
            normalize_player_name(q.name) = normalize_player_name(name)).id
  ELSE NoId

\* _get_player_id up to the call of search_player (lines 115-140): NoId when
\* no local source knows the name.  At most one record carries a given name
\* here, so the glob order of the scan does not matter.
get_player_id_local(name, store, mappings, squad) ==
  IF MatchingLinks(name, store) # {}
  THEN store[CHOOSE k \in MatchingLinks(name, store) : TRUE].data.player_id
  ELSE IF \E m \in mappings : normalize_player_name(m.name) = normalize_player_name(name)
  THEN (CHOOSE m \in mappings :
            normalize_player_name(m.name) = normalize_player_name(name)).id
  ELSE IF \E q \in squad : normalize_player_name(q.name) = normalize_player_name(name)
  THEN (CHOOSE q \in squad :
            normalize_player_name(q.name) = normalize_player_name(name)).id
  ELSE NoId

LocalPlayerId(name, store) == get_player_id_local(name, store, player_mappings, Squad)

\* _get_player_id (lines 113-147): the local sources, then the external
\* search, whose best result is `found` (NoId for an empty list); `searched`
\* tells whether search_player was called
get_player_id(name, store, mappings, squad, found) ==
  LET local == get_player_id_local(name, store, mappings, squad) IN
  IF local # NoId THEN [id |-> local, searched |-> FALSE]
  ELSE [id |-> found, searched |-> TRUE]

\* where the per-player loop stops: at the await of search_player, at the
\* await of the detailed analysis, at the end of the list ("mark"), or at
\* an exception ("raise")
LoopResult(next, fault, rest, name, pid, data, unresolved) ==
  [ next |-> next, fault |-> fault, rest |-> rest, name |-> name, pid |-> pid,
    data |-> data, unresolved |-> unresolved ]

\* lines 475-490: _ensure_player_stats absorbs its own errors and touches no
\* record; then the record is read, or created for a player not yet stored
LoadPlayer(id, name, rest, store, unresolved) ==
  IF store[id].state = "torn"
  THEN LoopResult("raise", "load", <<>>, NoName, NoId, NoData, unresolved)
  ELSE LoopResult("detail", "none", rest, name, id,
                  IF store[id].state = "ok" THEN store[id].data
                  ELSE NewPlayerData(id, name),
                  unresolved)

\* lines 464-473 (process_pending_news) and 558-566 (process_news_file): the
\* loop over the mentioned players, run until it suspends or ends
RECURSIVE PlayersLoop(_, _, _, _)
PlayersLoop(entry, players, store, unresolved) ==
  IF players = <<>>
  THEN LoopResult("mark", "none", <<>>, NoName, NoId, NoData, unresolved)
  ELSE LET player == Head(players) IN
    IF ~player.tottenham_role
    THEN PlayersLoop(entry, Tail(players), store, unresolved)
    ELSE IF ~player.has_name
    THEN LoopResult("raise", "keyerror", <<>>, NoName, NoId, NoData, unresolved)
    ELSE IF entry = "file" /\ player.name \in KNOWN_JOURNALISTS
    THEN PlayersLoop(entry, Tail(players), store, unresolved)
    ELSE LET id == LocalPlayerId(player.name, store) IN
      IF id # NoId
      THEN LoadPlayer(id, player.name, Tail(players), store, unresolved)
      ELSE LoopResult("search", "none", Tail(players), player.name, NoId, NoData,
                      unresolved)

\* the player whose name no source resolved: process_pending_news logs and
\* goes on (lines 471-473); process_news_file calls football_api.search_players
\* (line 572), which SimpleFootballAPI does not define, so AttributeError
AfterNoMatch(entry, rest, store) ==
  IF entry = "pending"
  THEN PlayersLoop(entry, rest, store, TRUE)
  ELSE LoopResult("raise", "attr", <<>>, NoName, NoId, NoData, TRUE)

\* the players a list of mentions names that some source resolves
Resolvable(players) ==
  { k \in PlayerIds : \E i \in 1..Len(players) :
      /\ players[i].tottenham_role /\ players[i].has_name
      /\ \/ SearchDirectory(players[i].name) = k
         \/ \E m \in player_mappings : m.name = players[i].name /\ m.id = k }

Outcome(r, res) ==
  [ item |-> r.item, fault |-> res.fault, unresolved |-> res.unresolved,
    complete |-> Resolvable(r.mentions) \subseteq r.merged,
    failed |-> r.failed ]

FetchNext(r, res) ==
  [ IdleRun EXCEPT !.pc = "fetch", !.unprocessed = r.unprocessed,
                   !.item = r.unprocessed[Len(r.attempted) + 1],
                   !.attempted = Append(r.attempted, r.unprocessed[Len(r.attempted) + 1]),
                   !.inv_merged = r.inv_merged, !.last = Outcome(r, res),
                   !.write_failed = (r.write_failed \/ res.fault = "write") ]

\* a faulty variant of the for loop: an exception ends the invocation
RunAbortedOnError(r, res) ==
  IF res.next = "mark" /\ Len(r.attempted) < Len(r.unprocessed)
  THEN FetchNext(r, res)
  ELSE [IdleRun EXCEPT !.last = Outcome(r, res)]

\* lines 430-437 and 514-516: the item is over, marked or failed; the for
\* loop takes the next file of its list, or the invocation returns
NextItem(r, res) ==
  IF Len(r.attempted) < Len(r.unprocessed)
  THEN FetchNext(r, res)
  ELSE [IdleRun EXCEPT !.last = Outcome(r, res)]

\* a faulty variant of the marking: processed_news.json is left as it was
MarkDropped(done, item, res) == done

\* line 510 / 622: _mark_processed, reached only when nothing raised
MarkProcessed(done, item, res) ==
  IF res.next = "mark" THEN done \cup {item} ELSE done

\* what the caller of process_pending_news receives: the function has no
\* return statement and its except clause (lines 514-516) does not re-raise
ReturnValue == "None"

\* the coroutine p continues after the loop stopped with result res
Proceed(p, r, res) ==
  IF res.next \in {"search", "detail"}
  THEN /\ run' = [run EXCEPT ![p] =
                    [ r EXCEPT !.pc = res.next, !.rest = res.rest, !.name = res.name,
                               !.pid = res.pid, !.data = res.data,
                               !.unresolved = res.unresolved ]]
       /\ processed' = processed
  ELSE /\ run' = [run EXCEPT ![p] =
                    [ NextItem(r, res) EXCEPT
                        !.returned = ReturnValue,
                        !.oracle_failed = r.oracle_failed \cup
                                            (IF r.failed THEN {r.item} ELSE {}) ]]
       /\ processed' = MarkProcessed(processed, r.item, res)

Orderings(S) ==
  { q \in [1..Cardinality(S) -> S] : \A i, j \in 1..Cardinality(S) : i # j => q[i] # q[j] }

\* _get_unprocessed_news (lines 351-366), in the order glob happens to give
UnprocessedLists == Orderings(DOMAIN news \ processed)

\* lines 424-437: the list of unprocessed files is taken once; the first
\* file is opened and its article awaited
Begin(p) ==
  /\ run[p].pc = "idle"
  /\ budget > 0
  /\ DOMAIN news \ processed # {}
  /\ \E unprocessed \in UnprocessedLists :
       run' = [run EXCEPT ![p] =
                 [ IdleRun EXCEPT !.pc = "fetch", !.unprocessed = unprocessed,
                                  !.attempted = <<unprocessed[1]>>,
                                  !.item = unprocessed[1] ]]
  /\ budget' = budget - 1
  /\ UNCHANGED <<mergeVars, pureVars, news, processed_posts, links, processed, link, appended>>

\* what _get_article_text returns: the text of the page, or '' when the
\* request failed (lines 149-158)
ArticleTexts == {NoContent, "article"}

\* process_news_file lines 525-532: a news file whose content is empty is
\* given the fetched text and written back
FetchContent(file, text) ==
  IF file.content = NoContent THEN [file EXCEPT !.content = text] ELSE file

\* lines 440-473: the initial analysis answers, and the loop over
\* initial_analysis.get('players', []) starts
AnalysedWith(p, replies) ==
  /\ run[p].pc = "fetch"
  /\ \E reply \in replies :
       LET initial_analysis == analyze_with_gpt4(reply) IN
       Proceed(p, [run[p] EXCEPT !.mentions = initial_analysis.players,
                                 !.failed = initial_analysis.error,
                                 !.last = NoOutcome],
               PlayersLoop(Entry(p), initial_analysis.players, links, FALSE))
  /\ IF Entry(p) = "file"
     THEN \E text \in ArticleTexts :
            news' = [news EXCEPT ![run[p].item] = FetchContent(@, text)]
     ELSE news' = news
  /\ UNCHANGED <<mergeVars, pureVars, processed_posts, links, link, appended, budget>>

\* lines 143-147 and 471-490: search_player answers, or its request raises
Searched(p) ==
  /\ run[p].pc = "search"
  /\ \E out \in SearchOutcomes(run[p].name) :
       Proceed(p, run[p],
               IF out.raised
               THEN LoopResult("raise", "search", <<>>, NoName, NoId, NoData,
                               run[p].unresolved)
               ELSE IF out.id = NoId
               THEN AfterNoMatch(Entry(p), run[p].rest, links)
               ELSE LoadPlayer(out.id, run[p].name, run[p].rest, links,
                               run[p].unresolved))
  /\ UNCHANGED <<mergeVars, pureVars, news, processed_posts, links, link, appended, budget>>

\* lines 493-510: the detailed analysis answers; merge, write the record,
\* and go on with the remaining players
Detailed(p) ==
  /\ run[p].pc = "detail"
  /\ \E new \in OrchDeltas :
       LET r == run[p]
           updated_data == update_player_data(r.data, new, r.item)
           store == WritePlayer(links, r.pid, updated_data)
       IN /\ links' = store
          /\ appended' = [appended EXCEPT ![r.pid] =
                            @ + Len(updated_data.timeline) - Len(r.data.timeline)]
          /\ Proceed(p, [r EXCEPT !.merged = @ \cup {r.pid},
                                  !.inv_merged = @ \cup {<<r.item, r.pid>>}],
                     PlayersLoop(Entry(p), r.rest, store, r.unresolved))
  /\ UNCHANGED <<mergeVars, pureVars, news, processed_posts, link, budget>>

RunStepOn(p, replies) == AnalysedWith(p, replies) \/ Searched(p) \/ Detailed(p)

RunStep(p) == RunStepOn(p, InitialReplies)

\* ------------------------------------------- the pure functions, called
\* records a player file may hold when a merge reads it
SampleEvent == [form |-> "event", text |-> "t", date |-> "now", news_ids |-> <<"n1">>]
SampleRecords ==
  { [ NewPlayerData(1, NameRose) EXCEPT !.transfer_status = st, !.direction = d,
                                        !.timeline = tl, !.related_clubs = cl ] :
      st \in DOMAIN status_levels, d \in {"none", "incoming"},
      tl \in {<<>>, <<SampleEvent>>},
      cl \in { <<>>, <<ClubData(StrClub)>>, <<ClubData(StrClub), ClubData(StrClub)>> } }

PureInit(calls) == RecordInit /\ FilesInit(0, NewsIds) /\ call \in calls

\* _get_player_id for a name that each source knows under an id of its own,
\* or does not know (NoId); the persisted record spells the name its own way
SourceIds == PlayerIds \cup {NoId}
StoredSpelling(name) == IF name = NameRose THEN <<"dan", "rose">> ELSE name
StoreKnowing(name, id) ==
  [ k \in PlayerIds |->
      IF k = id THEN OkFile(NewPlayerData(id, StoredSpelling(name))) ELSE AbsentFile ]
ListKnowing(name, id) == IF id = NoId THEN {} ELSE { [name |-> name, id |-> id] }

ResolveCalls ==
  { [ fn |-> "resolve", stage |-> "asked", name |-> nm,
      persisted |-> pe, mapped |-> ma, squad |-> sq, found |-> fo,
      result |-> [id |-> NoId, searched |-> FALSE] ] :
      nm \in {NameRose, NameTel}, pe \in SourceIds, ma \in SourceIds,
      sq \in SourceIds, fo \in SourceIds }

Resolve ==
  /\ call.fn = "resolve" /\ call.stage = "asked"
  /\ call' = [call EXCEPT
       !.stage = "answered",
       !.result = get_player_id(call.name, StoreKnowing(call.name, call.persisted),
                                ListKnowing(call.name, call.mapped),
                                ListKnowing(call.name, call.squad), call.found)]
  /\ UNCHANGED <<mergeVars, storeVars, news, processed_posts>>

ResolveSpec == PureInit(ResolveCalls) /\ [][Resolve]_vars

\* _get_player_id with collaborators that may fail: get_all_players raises
\* when a file of data/players cannot be read (_load_json, lines 136-147 of
\* football_api.py), search_player raises when the request does
\* (_make_request, lines 110-111); neither call is inside a try
Raised == [raised |-> TRUE, id |-> NoId]
Returns(id) == [raised |-> FALSE, id |-> id]
CollaboratorOutcomes == { Raised } \cup { Returns(id) : id \in SourceIds }

get_player_id_outcome(name, store, mappings, roster, search) ==
  IF get_player_id_local(name, store, mappings, {}) # NoId
  THEN Returns(get_player_id_local(name, store, mappings, {}))
  ELSE IF roster.raised THEN Raised
  ELSE IF roster.id # NoId THEN Returns(roster.id)
  ELSE IF search.raised THEN Raised
  ELSE Returns(search.id)

FaultyResolveCalls ==
  { [ fn |-> "resolve_io", stage |-> "asked", name |-> nm,
      persisted |-> pe, mapped |-> ma, roster |-> ro, search |-> se,
      result |-> Returns(NoId) ] :
      nm \in {NameRose, NameTel, NameNobody}, pe \in SourceIds, ma \in SourceIds,
      ro \in CollaboratorOutcomes, se \in CollaboratorOutcomes }

ResolveWithFaults ==
  /\ call.fn = "resolve_io" /\ call.stage = "asked"
  /\ call' = [call EXCEPT
       !.stage = "answered",
       !.result = get_player_id_outcome(call.name,
                    StoreKnowing(call.name, call.persisted),
                    ListKnowing(call.name, call.mapped), call.roster, call.search)]
  /\ UNCHANGED <<mergeVars, storeVars, news, processed_posts>>

ResolveFaultSpec == PureInit(FaultyResolveCalls) /\ [][ResolveWithFaults]_vars

\* _analyze_with_gpt4 on one answer of the oracle, and the merge of what it
\* returned into a record (lines 493-502)
SampleReplies ==
  { FailedCall, MalformedReply, JsonReply(<<Mention(NameRose)>>, RumorDelta),
    JsonReply(<<>>, ErrorDelta) }

AnalyzeCalls ==
  { [ fn |-> "analyze", stage |-> "asked", reply |-> rp, current |-> c,
      result |-> analyze_with_gpt4(JsonReply(<<>>, ErrorDelta)), updated |-> c ] :
      rp \in SampleReplies, c \in SampleRecords }

Analyze ==
  /\ call.fn = "analyze" /\ call.stage = "asked"
  /\ call' = [call EXCEPT !.stage = "answered", !.result = analyze_with_gpt4(call.reply)]
  /\ UNCHANGED <<mergeVars, storeVars, news, processed_posts>>

MergeAnalysis ==
  /\ call.fn = "analyze" /\ call.stage = "answered"
  /\ call' = [call EXCEPT !.stage = "merged",
                          !.updated = update_player_data(call.current, call.result.delta, "n2")]
  /\ UNCHANGED <<mergeVars, storeVars, news, processed_posts>>

AnalyzeSpec == PureInit(AnalyzeCalls) /\ [][Analyze \/ MergeAnalysis]_vars

\* _update_player_data applied to a record, and applied again to its own
\* result with the same delta and the same news id
TwiceCalls ==
  { [ fn |-> "twice", stage |-> "given", current |-> c, new |-> d, news_id |-> n,
      once |-> c, twice |-> c, held |-> c ] :
      c \in SampleRecords, d \in Deltas, n \in NewsIds }

MergeOnce ==
  /\ call.fn = "twice" /\ call.stage = "given"
  /\ call' = [call EXCEPT
       !.stage = "once",
       !.once = update_player_data(call.current, call.new, call.news_id),
       !.held = CurrentAfterCall(call.current,
                  update_player_data(call.current, call.new, call.news_id))]
  /\ UNCHANGED <<mergeVars, storeVars, news, processed_posts>>

MergeAgain ==
  /\ call.fn = "twice" /\ call.stage = "once"
  /\ call' = [call EXCEPT !.stage = "twice",
                          !.twice = update_player_data(call.once, call.new, call.news_id)]
  /\ UNCHANGED <<mergeVars, storeVars, news, processed_posts>>

TwiceSpec == PureInit(TwiceCalls) /\ [][MergeOnce \/ MergeAgain]_vars

\* ------------------------------------------------- operator endpoints
\* link_news_to_player, lines 755-779: the record and the news item are
\* read, then the analysis is awaited (a missing record raises ValueError
\* and changes nothing)
LinkBegin(k, news_id) ==
  /\ link.pc = "idle"
  /\ budget > 0
  /\ links[k].state = "ok"
  /\ link' = [pc |-> "analyze", pid |-> k, news_id |-> news_id, data |-> links[k].data]
  /\ budget' = budget - 1
  /\ UNCHANGED <<mergeVars, pureVars, news, processed_posts, links, processed, run, appended>>

\* link_news_to_player, lines 781-792: merge and write
LinkDone ==
  /\ link.pc = "analyze"
  /\ \E new \in OrchDeltas :
       LET updated_data == update_player_data(link.data, new, link.news_id) IN
       /\ links' = WritePlayer(links, link.pid, updated_data)
       /\ appended' = [appended EXCEPT ![link.pid] =
                         @ + Len(updated_data.timeline) - Len(link.data.timeline)]
  /\ link' = IdleLink
  /\ UNCHANGED <<mergeVars, pureVars, news, processed_posts, processed, run, budget>>

\* the request body of POST /links/player/{player_id}/timeline
EventInputs ==
  { [has_news_ids |-> FALSE, news_ids |-> <<>>] } \cup
  { [has_news_ids |-> TRUE, news_ids |-> <<n>>] : n \in NewsIds }

\* api.py lines 389-395: "news_ids": event_data.get("news_ids", [])
NewEvent(event_data) ==
  [ form |-> "dict", text |-> "t", date |-> "now",
    news_ids |-> IF event_data.has_news_ids THEN event_data.news_ids ELSE <<>> ]

\* add_timeline_event, api.py lines 376-409: no await between the read and
\* the write (a missing record is answered with an error and changes nothing)
AddTimelineEvent(k, event_data) ==
  /\ budget > 0
  /\ links[k].state = "ok"
  /\ links' = [links EXCEPT ![k].data.timeline = Append(@, NewEvent(event_data))]
  /\ appended' = [appended EXCEPT ![k] = @ + 1]
  /\ budget' = budget - 1
  /\ UNCHANGED <<mergeVars, pureVars, news, processed_posts, processed, run, link>>

\* ------------------------------------------------------------- a crash
\* how much of open(player_file, 'w') + json.dump reached the disk when the
\* process died: nothing yet, a truncated or partial document, or all of it
WriteCut == {"none", "partial", "all"}

\* lines 505-506 and 789-790: open(..., 'w') truncates the file in place
\* and json.dump then writes into it
FileAfterCrash(old, updated_data, cut) ==
  CASE cut = "none" -> old
    [] cut = "partial" -> TornFile
    [] cut = "all" -> OkFile(updated_data)

\* the process dies while the coroutine p writes a record; every coroutine
\* is gone and the service starts again from the files
CrashInRunWrite(p) ==
  /\ run[p].pc = "detail"
  /\ \E new \in OrchDeltas, cut \in WriteCut :
       links' = [links EXCEPT ![run[p].pid] =
                   FileAfterCrash(@, update_player_data(run[p].data, new, run[p].item), cut)]
  /\ run' = [q \in Procs |-> IdleRun]
  /\ link' = IdleLink
  /\ UNCHANGED <<mergeVars, pureVars, news, processed_posts, processed, appended, budget>>

CrashInLinkWrite ==
  /\ link.pc = "analyze"
  /\ \E new \in OrchDeltas, cut \in WriteCut :
       links' = [links EXCEPT ![link.pid] =
                   FileAfterCrash(@, update_player_data(link.data, new, link.news_id), cut)]
  /\ run' = [q \in Procs |-> IdleRun]
  /\ link' = IdleLink
  /\ UNCHANGED <<mergeVars, pureVars, news, processed_posts, processed, appended, budget>>

\* lines 505-506 raising OSError (no space left, permission denied): open()
\* failed and the file is as it was, or json.dump failed part-way; the except
\* clause at 514 logs and the loop goes on with the next file
WriteFailed(p) ==
  /\ run[p].pc = "detail"
  /\ \E new \in OrchDeltas, cut \in {"none", "partial"} :
       links' = [links EXCEPT ![run[p].pid] =
                   FileAfterCrash(@, update_player_data(run[p].data, new, run[p].item), cut)]
  /\ Proceed(p, run[p],
             LoopResult("raise", "write", <<>>, NoName, NoId, NoData, run[p].unresolved))
  /\ UNCHANGED <<mergeVars, pureVars, news, processed_posts, link, appended, budget>>

\* ------------------------------------------------------ the Reddit monitor
\* the tiers of tier_mappings (reddit_service.py lines 45-52)
Tiers == 1..4
NoTier == 0                          \* None

\* lines 45-52, and _get_tier_from_flair (lines 75-77)
tier_mappings ==
  [ flair \in { "Transfer News: Tier 1", "Transfer News: Tier 2",
                "Transfer News: Tier 3", "Tier: Here We Go!", "Transfer: News",
                "Transfer News" } |->
      CASE flair \in {"Transfer News: Tier 1", "Tier: Here We Go!"} -> 1
        [] flair = "Transfer News: Tier 2" -> 2
        [] flair = "Transfer News: Tier 3" -> 3
        [] OTHER -> 4 ]
get_tier_from_flair(flair) ==
  IF flair \in DOMAIN tier_mappings THEN tier_mappings[flair] ELSE NoTier

\* the flairs a post may carry: the mapped ones, another one, none ("")
Flairs == DOMAIN tier_mappings \cup {"Discussion", ""}

\* _create_news_file line 81: the id ends in len(processed_posts) % 999 + 1;
\* the minute in front of it is taken to be the same for all posts
CreatedIds == <<"r1", "r2", "r3", "r4">>
NewNewsId(posts) == CreatedIds[(Cardinality(DOMAIN posts) % 999) + 1]

\* a faulty variant of the memory: the post just created is not remembered
PostForgotten(posts, post, news_id, tier) == posts

\* lines 138-141
RememberPost(posts, post, news_id, tier) ==
  [ q \in DOMAIN posts \cup {post} |->
      IF q = post THEN [news_id |-> news_id, tier |-> tier] ELSE posts[q] ]

\* line 123: only update if the new tier is better (lower number)
TierBetter(tier, existing_tier) == tier < existing_tier

\* what process_transfer_post returns
PostResult(post, tier, news_id, is_new) ==
  [fn |-> "post", post |-> post, tier |-> tier, news_id |-> news_id, is_new |-> is_new]

\* process_transfer_post (lines 110-143) for one post and the tier of its
\* flair.  For a post seen before the tier is compared with the one
\* remembered in processed_posts, whose entry is not updated by an upgrade.
process_transfer_post(post, tier) ==
  /\ IF tier = NoTier THEN
       /\ call' = PostResult(post, tier, NoItem, FALSE)
       /\ UNCHANGED <<news, processed_posts>>
     ELSE IF post \in DOMAIN processed_posts THEN
       LET existing == processed_posts[post] IN
       IF TierBetter(tier, existing.tier) THEN
         /\ news' = [news EXCEPT ![existing.news_id].tier = tier]
         /\ call' = PostResult(post, tier, existing.news_id, FALSE)
         /\ UNCHANGED processed_posts
       ELSE
         /\ call' = PostResult(post, tier, NoItem, FALSE)
         /\ UNCHANGED <<news, processed_posts>>
     ELSE
       LET news_id == NewNewsId(processed_posts) IN
       /\ news' = [ n \in DOMAIN news \cup {news_id} |->
                      IF n = news_id
                      THEN [content |-> NoContent, tier |-> tier, reddit_id |-> post]
                      ELSE news[n] ]
       /\ processed_posts' = RememberPost(processed_posts, post, news_id, tier)
       /\ call' = PostResult(post, tier, news_id, TRUE)
  /\ UNCHANGED <<mergeVars, storeVars>>

\* -------------------------------------------------------- specifications
Init == RecordInit /\ StoreInit(MaxOps)

StartPending == \E p \in Runs : Begin(p)
StepPending == \E p \in Runs : RunStep(p)
StartFile == \E p \in FileRuns : Begin(p)
StepFile == \E p \in FileRuns : RunStep(p)
StartLink == \E k \in PlayerIds, n \in NewsIds : LinkBegin(k, n)
PostEvent == \E k \in PlayerIds, e \in EventInputs : AddTimelineEvent(k, e)

\* the service: the background loop and /reddit/check-now, both running
\* process_pending_news, and the operator's endpoints, interleaved at their
\* awaits
Next == StartPending \/ StepPending \/ StartLink \/ LinkDone \/ PostEvent

Spec == Init /\ [][Next]_vars

\* one caller invoking process_pending_news again and again; the event loop
\* resumes a coroutine whose awaited call has answered or failed
SeqNext == Begin("bg") \/ RunStep("bg")

SeqSpec == Init /\ [][SeqNext]_vars /\ WF_vars(RunStep("bg"))

\* the two entry points side by side: /reddit/check-now running
\* process_pending_news and /links/reprocess-unlinked running process_news_file
EntryNext == Begin("now") \/ RunStep("now") \/ StartFile \/ StepFile

EntryInit == RecordInit /\ StoreInit(MaxEntryCalls)

EntrySpec == EntryInit /\ [][EntryNext]_vars

\* both entry points on news whose extraction names a known journalist and
\* nobody else
JournalistReplies == { JsonReply(<<Mention(NameRomano)>>, ErrorDelta) }

DenyNext == \E p \in {"now", "re"} : Begin(p) \/ RunStepOn(p, JournalistReplies)

DenySpec == Init /\ [][DenyNext]_vars

\* the background loop and link_news_to_player on a host that may die during
\* a write
CrashNext ==
  \/ Begin("bg") \/ RunStep("bg") \/ StartLink \/ LinkDone
  \/ CrashInRunWrite("bg") \/ CrashInLinkWrite

CrashSpec == Init /\ [][CrashNext]_vars

\* one invocation of process_pending_news over three news files, each naming
\* a player of the manual mappings (no search request is made) or meeting an
\* oracle that fails
BatchIds == {"n1", "n2", "n3"}
BatchReplies == { FailedCall, MalformedReply, JsonReply(<<Mention(NameTel)>>, ErrorDelta) }

BatchInit == RecordInit /\ StoreInitWith(1, BatchIds)

BatchNext == Begin("bg") \/ AnalysedWith("bg", BatchReplies) \/ Detailed("bg")

BatchSpec == BatchInit /\ [][BatchNext]_vars

\* the operations that open a news file: the Reddit monitor seeing a post
\* again, /links/reprocess-unlinked and link_news_to_player
RepeatedPost ==
  \E post \in DOMAIN processed_posts, tier \in Tiers : process_transfer_post(post, tier)

NewsNext == StartFile \/ StepFile \/ StartLink \/ LinkDone \/ RepeatedPost

NewsSpec == Init /\ [][NewsNext]_vars

\* the Reddit monitor alone, from an empty news directory: check_new_posts
\* and fetch_historical hand every post they list to process_transfer_post
MonitorInit == RecordInit /\ StoreInitWith(0, {})

SeePost ==
  \E post \in PostIds, flair \in Flairs :
    process_transfer_post(post, get_tier_from_flair(flair))

MonitorSpec == MonitorInit /\ [][SeePost]_vars

\* the automated processing steps: the background loop, process_news_file
\* and link_news_to_player (which process_unlinked_news_for_player calls for
\* each relevant news item)
\* each on news naming two known players
AutoReplies == { JsonReply(<<Mention(NameRose), Mention(NameTel)>>, ErrorDelta) }
LinkFirstNews == \E k \in PlayerIds : LinkBegin(k, "n1")

AutoNext ==
  \/ \E p \in Procs : Begin(p) \/ RunStepOn(p, AutoReplies)
  \/ LinkFirstNews \/ LinkDone

\* one news file is in the news directory
AutoInit == RecordInit /\ StoreInitWith(MaxOps, {"n1"})

AutoSpec == AutoInit /\ [][AutoNext]_vars

\* --------------------------------------------- changing a player's id
\* a faulty variant of the renumbering: the record moves to the new file
\* with the id it had
KeptOldId(player_data, new_id) == player_data

\* player_data['player_id'] = new_id (llm_service.py line 836, api.py
\* line 318)
Renumbered(player_data, new_id) == [player_data EXCEPT !.player_id = new_id]

\* save to the new location, delete the old file (lines 839-843; api.py
\* lines 327-331)
MovePlayer(store, old_id, new_id, player_data) ==
  [store EXCEPT ![new_id] = OkFile(player_data), ![old_id] = AbsentFile]

\* update_player_id (lines 820-853): no await between the checks and the
\* unlink; a missing old file, an existing new file or an unreadable record
\* raises and changes nothing
update_player_id(old_id, new_id) ==
  /\ budget > 0
  /\ links[old_id].state = "ok"
  /\ links[new_id].state = "absent"
  /\ links' = MovePlayer(links, old_id, new_id, Renumbered(links[old_id].data, new_id))
  /\ budget' = budget - 1
  /\ UNCHANGED <<mergeVars, pureVars, news, processed_posts, processed, run, link, appended>>

\* the body of PUT /links/player/{player_id}: player_id NoId when the key is
\* missing or falsy, transfer_status Absent when the key is missing
LinkUpdates ==
  { [player_id |-> n, transfer_status |-> st] :
      n \in PlayerIds \cup {NoId}, st \in {Absent, "developing"} }

\* api.py lines 319-321 and 347-349: the allowed fields are overwritten
AllowedFields(current_data, update_data) ==
  IF update_data.transfer_status = Absent THEN current_data
  ELSE [current_data EXCEPT !.transfer_status = update_data.transfer_status]

\* update_player_link (api.py lines 292-373): with a new id the record is
\* renumbered and moved, otherwise rewritten in place; the error answers
\* (400, 404, 500) change nothing
update_player_link(player_id, update_data) ==
  LET new_player_id == update_data.player_id IN
  /\ budget > 0
  /\ links[player_id].state = "ok"
  /\ IF new_player_id # NoId /\ new_player_id # player_id
     THEN /\ links[new_player_id].state = "absent"
          /\ links' = MovePlayer(links, player_id, new_player_id,
                         AllowedFields(Renumbered(links[player_id].data, new_player_id),
                                       update_data))
     ELSE links' = WritePlayer(links, player_id,
                               AllowedFields(links[player_id].data, update_data))
  /\ budget' = budget - 1
  /\ UNCHANGED <<mergeVars, pureVars, news, processed_posts, processed, run, link, appended>>

ChangePlayerId == \E old_id \in PlayerIds, new_id \in PlayerIds : update_player_id(old_id, new_id)

PutPlayerLink ==
  \E player_id \in PlayerIds, update_data \in LinkUpdates :
    update_player_link(player_id, update_data)

\* the automated steps next to an operator who renumbers and edits records
IdentityNext == AutoNext \/ ChangePlayerId \/ PutPlayerLink

IdentitySpec == AutoInit /\ [][IdentityNext]_vars

\* the background loop on a host whose disk may refuse a write
FaultNext == Begin("bg") \/ RunStep("bg") \/ WriteFailed("bg")

FaultSpec == Init /\ [][FaultNext]_vars

\* ------------------------------------------------ the football API search
\* Here a word is a sequence of characters and a name a sequence of words
\* (the string split at its blanks).
Lower(c) ==
  CASE c = "M" -> "m" [] c = "T" -> "t" [] c = "J" -> "j" [] c = "S" -> "s"
    [] c = "P" -> "p" [] OTHER -> c
LowerWord(w) == [ i \in 1..Len(w) |-> Lower(w[i]) ]
LowerName(n) == [ i \in 1..Len(n) |-> LowerWord(n[i]) ]

\* a faulty variant of the containment test: a must begin b
IsAtStartOf(a, b) == Len(a) <= Len(b) /\ SubSeq(b, 1, Len(a)) = a

\* Python's `a in b` and b.startswith(a) on strings
IsIn(a, b) == \E i \in 0..(Len(b) - Len(a)) : SubSeq(b, i + 1, i + Len(a)) = a
StartsWith(b, a) == Len(a) <= Len(b) /\ SubSeq(b, 1, Len(a)) = a

\* line 401: the first word of the query counts as an abbreviation when it
\* is one character long
IsInitial(search_first) == Len(search_first) = 1

\* _score_player_match_v2 (lines 348-408), in hundredths
score_player_match_v2(search_name, api_player) ==
  LET api_name     == LowerName(api_player.player_name)
      api_first    == LowerWord(api_player.firstname)
      api_last     == LowerWord(api_player.lastname)
      search_parts == LowerName(search_name)
      search_term  == search_parts[1]
      search_first == search_parts[1]
      search_last  == search_parts[Len(search_parts)]
      last_score   ==
        IF search_last = api_last THEN 60
        ELSE IF IsIn(search_last, api_last) \/ IsIn(api_last, search_last) THEN 30
        ELSE 0
      first_score  ==
        IF search_first = api_first THEN 40
        ELSE IF IsInitial(search_first) /\ StartsWith(api_first, search_first) THEN 35
        ELSE IF search_first # <<>> /\ api_first # <<>>
                /\ search_first[1] = api_first[1] THEN 20
        ELSE IF IsIn(search_first, api_first) \/ IsIn(api_first, search_first) THEN 10
        ELSE 0
      total        == last_score + first_score
  IN  IF search_parts = api_name THEN 100
      ELSE IF Len(search_parts) = 1 THEN
        ( IF search_term = api_last THEN 80
          ELSE IF search_term = api_first THEN 70
          ELSE IF IsIn(search_term, api_last) \/ IsIn(api_last, search_term) THEN 40
          ELSE IF IsIn(search_term, api_first) \/ IsIn(api_first, search_term) THEN 30
          ELSE 0 )
      ELSE IF total > 100 THEN 100 ELSE total

\* lines 272-274: the name without its non-alphabetic characters, split
IsAlpha(c) == c # "."
CleanWord(w) == SelectSeq(w, IsAlpha)
NameParts(name) ==
  SelectSeq([ i \in 1..Len(name) |-> CleanWord(name[i]) ], LAMBDA w : w # <<>>)

RECURSIVE Joined(_)
Joined(parts) == IF parts = <<>> THEN <<>> ELSE Head(parts) \o Joined(Tail(parts))

\* line 273: clean_name, the blanks between the words kept (a word made of
\* non-alphabetic characters only leaves its blank behind)
RECURSIVE Spaced(_)
Spaced(words) ==
  IF words = <<>> THEN <<>>
  ELSE IF Len(words) = 1 THEN Head(words)
  ELSE Head(words) \o <<" ">> \o Spaced(Tail(words))
CleanName(name) == Spaced([ i \in 1..Len(name) |-> CleanWord(name[i]) ])

\* a faulty variant of the search terms: the length test of line 304 on a
\* single-part name is dropped
VariantsShortSingleKept(name) ==
  LET name_parts == NameParts(name)
      n          == Len(name_parts)
      terms      == IF n > 1
                    THEN {Joined(name_parts), name_parts[1], name_parts[n]}
                           \cup { name_parts[i] : i \in 2..(n - 1) }
                    ELSE {}
  IN  { t \in terms : Len(t) >= 4 }
        \cup (IF n > 1 THEN {} ELSE {CleanName(name)})

\* lines 276-306: the search terms, each of four characters at least
SearchVariants(name) ==
  LET name_parts == NameParts(name)
      n          == Len(name_parts)
      terms      == IF n > 1
                    THEN {Joined(name_parts), name_parts[1], name_parts[n]}
                           \cup { name_parts[i] : i \in 2..(n - 1) }
                    ELSE {CleanName(name)}
  IN  { t \in terms : Len(t) >= 4 }

\* the players the service knows
Mathys == <<"M", "a", "t", "h", "y", "s">>
Marcus == <<"M", "a", "r", "c", "u", "s">>
Tom    == <<"T", "o", "m">>
John   == <<"J", "o", "h", "n">>
Tel    == <<"T", "e", "l">>
Telles == <<"T", "e", "l", "l", "e", "s">>
Smith  == <<"S", "m", "i", "t", "h">>
Patel  == <<"P", "a", "t", "e", "l">>
Jones  == <<"J", "o", "n", "e", "s">>
MDot   == <<"M", ".">>
JDot   == <<"J", ".">>
Dot    == <<".">>

ApiPlayer(id, first, last) ==
  [ player_id |-> id, player_name |-> <<first, last>>,
    firstname |-> first, lastname |-> last ]
Directory ==
  << ApiPlayer(1, Mathys, Tel), ApiPlayer(2, Marcus, Tel),
     ApiPlayer(3, Mathys, Telles), ApiPlayer(4, Tom, Tel),
     ApiPlayer(5, John, Smith) >>

Queries == { <<Mathys, Tel>>, <<MDot, Tel>>, <<Tel>>, <<JDot, Smith>>, <<Tel, Dot>> }

\* line 259 and lines 323, 340: the two thresholds; ConfidentAt is the faulty
\* variant that lets a score of exactly 0.6 pass
RosterMatch(score) == score > 50
ConfidentAt(score) == score >= 60
Confident(score) == score > 60

SearchResult(player, score) == [ id |-> player.player_id, match_score |-> score ]

\* lines 248-270: the first roster entry that matches is returned
RosterStep(name, roster) ==
  LET hits == { i \in 1..Len(roster) :
                  RosterMatch(score_player_match_v2(name, Directory[roster[i]])) }
      first == CHOOSE i \in hits : \A j \in hits : i <= j
  IN  IF hits = {} THEN <<>>
      ELSE << SearchResult(Directory[roster[first]],
                           score_player_match_v2(name, Directory[roster[first]])) >>

\* lines 309-320: the answers to the terms one after the other, a player
\* seen before skipped
RECURSIVE Returned(_, _)
Returned(api, terms) ==
  IF terms = <<>> THEN <<>> ELSE api[Head(terms)] \o Returned(api, Tail(terms))

RECURSIVE Unseen(_, _)
Unseen(ids, seen_players) ==
  IF ids = <<>> THEN <<>>
  ELSE IF Head(ids) \in seen_players THEN Unseen(Tail(ids), seen_players)
  ELSE <<Head(ids)>> \o Unseen(Tail(ids), seen_players \cup {Head(ids)})

\* line 337: list.sort by match_score, reverse, which keeps the order of
\* equal scores
RECURSIVE SortedByScore(_)
SortedByScore(results) ==
  IF results = <<>> THEN <<>>
  ELSE LET best == CHOOSE i \in 1..Len(results) :
                     /\ \A j \in 1..Len(results) :
                          results[j].match_score <= results[i].match_score
                     /\ \A j \in 1..(i - 1) :
                          results[j].match_score < results[i].match_score
           rest == [ k \in 1..(Len(results) - 1) |->
                       IF k < best THEN results[k] ELSE results[k + 1] ]
       IN  <<results[best]>> \o SortedByScore(rest)

\* lines 308-346
ExternalStep(name, api, terms) ==
  LET ids    == Unseen(Returned(api, terms), {})
      scored == [ i \in 1..Len(ids) |->
                    SearchResult(Directory[ids[i]],
                                 score_player_match_v2(name, Directory[ids[i]])) ]
      kept   == SelectSeq(scored, LAMBDA r : Confident(r.match_score))
  IN  SortedByScore(kept)

\* search_player (lines 230-346); `terms` is the order in which the set of
\* search terms happens to be iterated, team_id NoId when none is given
search_player(name, team_id, roster, api, terms) ==
  IF team_id # NoId /\ roster # <<>> /\ RosterStep(name, roster) # <<>>
  THEN RosterStep(name, roster)
  ELSE IF SearchVariants(name) = {} THEN <<>>
  ELSE ExternalStep(name, api, terms)

\* the terms for which v2/players/search is requested (line 312): none when
\* the roster step answered
TermsSent(name, team_id, roster) ==
  IF team_id # NoId /\ roster # <<>> /\ RosterStep(name, roster) # <<>>
  THEN {}
  ELSE SearchVariants(name)

\* _get_player_id lines 143-147: the first result's id, or None
FirstId(api_results) == IF api_results = <<>> THEN NoId ELSE api_results[1].id

TeamIds == {NoId, 47}                \* no team, or Tottenham's id
Rosters == { <<>>, <<1, 2>>, <<2, 1>>, <<4, 3>>, <<5>> }
Responses == { <<>>, <<4>>, <<4, 2>>, <<3, 1>>, <<2, 3, 4>>, <<5, 1>> }

SearchCalls ==
  UNION { { [ fn |-> "search", stage |-> "asked", name |-> nm, team_id |-> t,
              roster |-> ro, api |-> api, terms |-> terms, results |-> <<>>,
              sent |-> {} ] :
              t \in TeamIds, ro \in Rosters,
              api \in [SearchVariants(nm) -> Responses],
              terms \in Orderings(SearchVariants(nm)) } : nm \in Queries }

WellFormedSearch(c) ==
  /\ DOMAIN c.api = SearchVariants(c.name)
  /\ c.terms \in Orderings(SearchVariants(c.name))

Search ==
  /\ call.fn = "search" /\ call.stage = "asked"
  /\ call' = [call EXCEPT
       !.stage = "answered",
       !.results = search_player(call.name, call.team_id, call.roster,
                                 call.api, call.terms),
       !.sent = TermsSent(call.name, call.team_id, call.roster)]
  /\ UNCHANGED <<mergeVars, storeVars, news, processed_posts>>

SearchSpec ==
  PureInit({ c \in SearchCalls : WellFormedSearch(c) }) /\ [][Search]_vars

\* _score_player_match_v2 on one query and one candidate
Candidates ==
  { [ player_id |-> 1, player_name |-> pn, firstname |-> fi, lastname |-> la ] :
      pn \in { <<Mathys, Tel>>, <<MDot, Tel>>, <<JDot, Smith>>, <<John, Jones>> },
      fi \in { Mathys, Marcus, John, <<>> },
      la \in { Tel, Telles, Jones, Smith, Patel } }

ScoreCalls ==
  { [ fn |-> "score", stage |-> "asked", name |-> nm, player |-> pl, score |-> 0 ] :
      nm \in Queries, pl \in Candidates }

Score ==
  /\ call.fn = "score" /\ call.stage = "asked"
  /\ call' = [call EXCEPT
       !.stage = "answered",
       !.score = score_player_match_v2(call.name, call.player)]
  /\ UNCHANGED <<mergeVars, storeVars, news, processed_posts>>

ScoreSpec == PureInit(ScoreCalls) /\ [][Score]_vars

\* ------------------------------------------------- normalizing a name
\* names of up to three tokens, in any case-folded spelling the oracle or an
\* operator may produce: honorifics, nicknames, a full first name, a surname
NameTokens == {"mr", "sir", "danny", "daniel", "rose"}
TypedNames ==
  {<<>>} \cup { <<a>> : a \in NameTokens }
         \cup { <<a, b>> : a \in NameTokens, b \in NameTokens }
         \cup { <<a, b, c>> : a \in NameTokens, b \in NameTokens, c \in NameTokens }

NormalizeCalls ==
  { [ fn |-> "normalize", stage |-> "asked", name |-> nm, once |-> <<>>,
      twice |-> <<>> ] : nm \in TypedNames }

\* _normalize_player_name applied to a name, and again to the result
Normalize ==
  /\ call.fn = "normalize" /\ call.stage = "asked"
  /\ call' = [call EXCEPT
       !.stage = "answered",
       !.once = normalize_player_name(call.name),
       !.twice = normalize_player_name(normalize_player_name(call.name))]
  /\ UNCHANGED <<mergeVars, storeVars, news, processed_posts>>

NormalizeSpec == PureInit(NormalizeCalls) /\ [][Normalize]_vars

\* ------------------------------------------- deleting a timeline event
\* DELETE /links/player/{player_id}/timeline/{event_index} on one player
\* file: missing, a record without a 'timeline' key, or a record with a
\* timeline of distinct events
StoredTimelines == { <<>>, <<"e1">>, <<"e1", "e2">>, <<"e1", "e2", "e3">> }
StoredFiles ==
  { [exists |-> FALSE, has_timeline |-> FALSE, timeline |-> <<>>],
    [exists |-> TRUE, has_timeline |-> FALSE, timeline |-> <<>>] }
  \cup { [exists |-> TRUE, has_timeline |-> TRUE, timeline |-> tl] : tl \in StoredTimelines }
EventIndexes == -4..4                \* event_index: int, any sign

\* the list without its element at the 1-based position pos
RemoveAt(list, pos) ==
  [ j \in 1..(Len(list) - 1) |-> IF j < pos THEN list[j] ELSE list[j + 1] ]

\* list.pop(i) of Python: a negative i counts from the end, an i outside
\* -len..len-1 raises IndexError
Pop(list, i) ==
  IF 0 <= i /\ i < Len(list) THEN [raised |-> FALSE, list |-> RemoveAt(list, i + 1)]
  ELSE IF -Len(list) <= i /\ i < 0
  THEN [raised |-> FALSE, list |-> RemoveAt(list, Len(list) + i + 1)]
  ELSE [raised |-> TRUE, list |-> list]

\* line 444-446: `except Exception` takes every exception of the body, the
\* HTTPException(404) of lines 422 and 430 included, and answers 500
AnswerFor(raised_status) == 500

\* delete_timeline_event (api.py lines 415-446): the file afterwards and the
\* status of the answer
delete_timeline_event(file, event_index) ==
  IF ~file.exists THEN [file |-> file, status |-> AnswerFor(404)]
  ELSE IF ~file.has_timeline \/ event_index >= Len(file.timeline)
  THEN [file |-> file, status |-> AnswerFor(404)]
  ELSE LET popped == Pop(file.timeline, event_index) IN
       IF popped.raised THEN [file |-> file, status |-> AnswerFor(500)]
       ELSE [file |-> [file EXCEPT !.timeline = popped.list], status |-> 200]

DeleteCalls ==
  { [ fn |-> "delete_event", stage |-> "asked", file |-> f, event_index |-> i,
      result |-> [file |-> f, status |-> 0] ] :
      f \in StoredFiles, i \in EventIndexes }

DeleteEvent ==
  /\ call.fn = "delete_event" /\ call.stage = "asked"
  /\ call' = [call EXCEPT
       !.stage = "answered",
       !.result = delete_timeline_event(call.file, call.event_index)]
  /\ UNCHANGED <<mergeVars, storeVars, news, processed_posts>>

DeleteSpec == PureInit(DeleteCalls) /\ [][DeleteEvent]_vars

\* ------------------------------------------------ the API-Football client
\* APIFootballClient._get (backend/app/pipeline/api_clients/football_api.py)
MaxAttempts == 3                     \* for attempt in range(3)

\* what one session.get may come to: a 429 with a Retry-After header (absent:
\* 30 seconds) that int() accepts or not, or another answer
RetryAfters == {1, 30, 120}
RateLimited == { [kind |-> "429", retry_after |-> n] : n \in RetryAfters }
OtherAnswers ==
  { [kind |-> k, retry_after |-> 0] :
      k \in { "429 with a date in Retry-After",   \* int() raises ValueError
              "request error",                    \* aiohttp.ClientError
              "error status",                     \* raise_for_status() raises
              "not a JSON object",                \* json() or the validator raises
              "errors in payload",                \* validate_api_response: {}
              "no response key",                  \* validate_api_response: {}
              "empty payload",                    \* response["response"] == []
              "payload" } }

\* lines 55-67: what _get returns for an answer other than a 429
ReturnedFor(answer) == IF answer.kind = "payload" THEN "payload" ELSE "{}"

NewGet ==
  [ fn |-> "_get", pc |-> "request", attempt |-> 0, answers |-> <<>>,
    returned |-> "nothing yet" ]

GetInit == PureInit({NewGet})

\* lines 44-64: one pass of the loop body up to its await or its return
Request ==
  /\ call.fn = "_get" /\ call.pc = "request"
  /\ \E answer \in RateLimited \cup OtherAnswers :
       call' = [call EXCEPT
         !.answers = Append(@, answer),
         !.pc = IF answer \in RateLimited THEN "sleeping" ELSE "done",
         !.returned = IF answer \in RateLimited THEN @ ELSE ReturnedFor(answer)]
  /\ UNCHANGED <<mergeVars, storeVars, news, processed_posts>>

\* lines 52-53 and 43: the sleep ends, `continue`; when range(3) is used up
\* the function ends without a return statement
Slept ==
  /\ call.fn = "_get" /\ call.pc = "sleeping"
  /\ call' = [call EXCEPT
       !.attempt = @ + 1,
       !.pc = IF call.attempt + 1 < MaxAttempts THEN "request" ELSE "done",
       !.returned = IF call.attempt + 1 < MaxAttempts THEN @ ELSE "None"]
  /\ UNCHANGED <<mergeVars, storeVars, news, processed_posts>>

GetSpec == GetInit /\ [][Request \/ Slept]_vars

\* ----------------------------------------------------- the background loops
\* BackgroundTasks (backend/app/background.py): start() creates the task of
\* reddit_monitor, sleeps two seconds and creates the task of news_processor;
\* each task is `while True: try: await <service call>; await sleep
\* except Exception: await sleep(300)`; stop() cancels the tasks it holds.
Loops == {"reddit_monitor", "news_processor"}

\* a faulty variant of the handler: a bare `except`, which also takes the
\* CancelledError thrown by Task.cancel()
CaughtWhateverRaised(exc) == TRUE

\* `except Exception` (lines 55 and 65): CancelledError derives from
\* BaseException and is not taken
CaughtByLoop(exc) == exc = "Exception"

\* positions of a task: "none" (the attribute is None), "created" (not yet
\* run), "calling" (awaiting the service call: an iteration), "sleeping"
\* (awaiting the sleep of the try body), "backoff" (awaiting sleep(300) in
\* the handler), "cancelled" and "failed" (ended by an exception)
Suspended == {"created", "calling", "sleeping", "backoff"}
InTryBody == {"calling", "sleeping"}

\* BackgroundTasks.__init__ (lines 14-20); `stopped` and `recovered` are
\* history: stop() has cancelled the task, an iteration began after an error
NewTasks ==
  [ fn |-> "loops", start |-> "idle",
    task |-> [l \in Loops |-> "none"],
    must_cancel |-> [l \in Loops |-> FALSE],
    stopped |-> [l \in Loops |-> FALSE],
    recovered |-> [l \in Loops |-> FALSE] ]

LoopInit == PureInit({NewTasks})

LoopUnchanged == UNCHANGED <<mergeVars, storeVars, news, processed_posts>>

\* start(), lines 22-29: up to its await
StartTasks ==
  /\ call.start = "idle"
  /\ call' = [call EXCEPT !.start = "waiting", !.task["reddit_monitor"] = "created"]
  /\ LoopUnchanged

\* start(), lines 31-35: after the two seconds
StartResumed ==
  /\ call.start = "waiting"
  /\ call' = [call EXCEPT !.start = "done", !.task["news_processor"] = "created"]
  /\ LoopUnchanged

\* stop(), lines 37-47: Task.cancel() on each task held; the CancelledError
\* is thrown when the task is next resumed
StopTasks ==
  /\ call' = [call EXCEPT
       !.must_cancel = [l \in Loops |-> call.must_cancel[l] \/ call.task[l] \in Suspended],
       !.stopped = [l \in Loops |-> call.stopped[l] \/ call.task[l] \in Suspended]]
  /\ LoopUnchanged

\* the top of `while True` (lines 51-53, 61-63): the service is called
BeginIteration(l) ==
  /\ ~call.must_cancel[l]
  /\ call.task[l] \in {"created", "sleeping", "backoff"}
  /\ call' = [call EXCEPT !.task[l] = "calling",
                          !.recovered[l] = @ \/ call.task[l] = "backoff"]
  /\ LoopUnchanged

\* the service call returns (lines 54, 64)
CallReturns(l) ==
  /\ ~call.must_cancel[l]
  /\ call.task[l] = "calling"
  /\ call' = [call EXCEPT !.task[l] = "sleeping"]
  /\ LoopUnchanged

\* the service call raises an Exception (lines 55-57, 65-67)
CallRaises(l) ==
  /\ ~call.must_cancel[l]
  /\ call.task[l] = "calling"
  /\ call' = [call EXCEPT
       !.task[l] = IF CaughtByLoop("Exception") THEN "backoff" ELSE "failed"]
  /\ LoopUnchanged

\* the task is resumed after cancel(): CancelledError at the await it is
\* suspended on; inside the try body the handler is asked first
CancelDelivered(l) ==
  /\ call.must_cancel[l]
  /\ call.task[l] \in Suspended
  /\ call' = [call EXCEPT
       !.must_cancel[l] = FALSE,
       !.task[l] = IF call.task[l] \in InTryBody /\ CaughtByLoop("CancelledError")
                   THEN "backoff" ELSE "cancelled"]
  /\ LoopUnchanged

LoopStep(l) ==
  BeginIteration(l) \/ CallReturns(l) \/ CallRaises(l) \/ CancelDelivered(l)

LoopNext == StartTasks \/ StartResumed \/ StopTasks \/ \E l \in Loops : LoopStep(l)

\* the event loop resumes every task whose await has finished
LoopSpec ==
  /\ LoopInit /\ [][LoopNext]_vars
  /\ WF_vars(LoopStep("reddit_monitor"))
  /\ WF_vars(LoopStep("news_processor"))

\* ---------------------------------------------------- claims on the merge
\* the ordinal ranking of the data model
TransferStatusRank ==
  [s \in {"hearsay", "rumors", "developing", "here we go!"} |->
     IF s = "hearsay" THEN 0 ELSE IF s = "rumors" THEN 1
     ELSE IF s = "developing" THEN 2 ELSE 3]

IsPrefix(s, t) == Len(s) <= Len(t) /\ \A i \in 1..Len(s) : s[i] = t[i]

\* C1 - Monotonic status: over every merge the rank of transfer_status does
\* not decrease; the status changes only to a suggestion of strictly greater
\* rank, such a suggestion is applied, and a suggestion of equal or lower
\* rank leaves the status as it was.
C1_MonotonicStatus ==
  [][ LET old == cur.transfer_status
          new == cur'.transfer_status
          R == TransferStatusRank
      IN /\ new \in DOMAIN R
         /\ R[new] >= R[old]
         /\ new # old => suggested' = new /\ R[new] > R[old]
         /\ suggested' \in DOMAIN R /\ R[suggested'] <= R[old] => new = old
         /\ suggested' \in DOMAIN R /\ R[suggested'] > R[old] => new = suggested'
    ]_vars

\* a record at developing has just been offered hearsay
C1_Witness == cur.transfer_status = "developing" /\ suggested = "hearsay"

\* C2 - Append-only timeline: over every merge the timeline of the input
\* record is a prefix of the timeline of the result.
C2_TimelineAppendOnly == [][ IsPrefix(cur.timeline, cur'.timeline) ]_vars

\* two merges with different news ids have each appended an event
C2_Witness ==
  /\ Len(cur.timeline) >= 2
  /\ cur.timeline[1].news_ids # cur.timeline[2].news_ids

\* C3 - Dedup invariant: starting from no related clubs, related_clubs never
\* holds two entries with the same (name, role) pair.
C3_NoDuplicateClubPairs ==
  \A i, j \in 1..Len(cur.related_clubs) :
    i # j => <<cur.related_clubs[i].name, cur.related_clubs[i].role>>
             # <<cur.related_clubs[j].name, cur.related_clubs[j].role>>

\* (A, interested) was merged first and suggested again, as a bare string,
\* together with (A, destination)
C3_Witness ==
  cur.related_clubs = << [name |-> "A", role |-> "interested"],
                         [name |-> "A", role |-> "destination"] >>

\* --------------------------------------------- claims on the orchestrator
Timeline(k) == links[k].data.timeline

Quiescent == link.pc = "idle" /\ \A p \in Procs : run[p].pc = "idle"

\* C4 - Provenance invariant: every timeline event of every persisted record
\* carries a non-empty news_ids list, whichever operation appended it.
C4_EveryEventHasProvenance ==
  \A k \in PlayerIds :
    links[k].state = "ok" => \A i \in 1..Len(Timeline(k)) : Timeline(k)[i].news_ids # <<>>

\* C5 - Processed-tracking prevents duplicates: over any sequence of
\* process_pending_news invocations no timeline holds two events that
\* reference the same news id.
C5_NoTwoEventsForOneNewsId ==
  \A k \in PlayerIds :
    links[k].state = "ok" =>
      \A i, j \in 1..Len(Timeline(k)) :
        i # j => \A n \in NewsIds :
          ~ ( /\ \E a \in 1..Len(Timeline(k)[i].news_ids) : Timeline(k)[i].news_ids[a] = n
              /\ \E b \in 1..Len(Timeline(k)[j].news_ids) : Timeline(k)[j].news_ids[b] = n )

\* C6 - No lost update: once the operations in flight have finished, the
\* record persisted for a player holds every event that a completed
\* operation appended to that player.
C6_NoLostUpdate ==
  Quiescent => \A k \in PlayerIds :
                 links[k].state = "ok" => Len(Timeline(k)) >= appended[k]

\* C7 - Exactly once under overlap: of two overlapping process_pending_news
\* runs, at most one merges a given news item into a given player's record.
C7_MergedByAtMostOneRun ==
  \A n \in NewsIds, k \in PlayerIds :
    ~ ( \A p \in Runs : run[p].pc # "idle" /\ <<n, k>> \in run[p].inv_merged )

\* C8 - Crash-safe writes: whenever the process dies during a write, the
\* store holds the complete previous record or the complete new one.
C8_NoTornRecord == \A k \in PlayerIds : links[k].state # "torn"

\* C9 - Batch resilience: an invocation returns only after it has attempted
\* every item of the list it took at its start, whatever raised on the way;
\* it attempts the items of that list in order, each once; an item handled
\* without an exception is marked processed; and the invocation terminates.
C9_Attempts ==
  \A p \in Procs :
    LET r == run[p] IN
    /\ Len(r.attempted) <= Len(r.unprocessed)
    /\ \A i \in 1..Len(r.attempted) : r.attempted[i] = r.unprocessed[i]
    /\ \A i, j \in 1..Len(r.attempted) : i # j => r.attempted[i] # r.attempted[j]
    /\ r.last.item # NoItem /\ r.last.fault = "none" => r.last.item \in processed

C9_ReturnsAfterLastItem ==
  \A p \in Procs :
    run[p].pc # "idle" /\ run'[p].pc = "idle" => run[p].attempted = run[p].unprocessed

C9_BatchResilience ==
  /\ []C9_Attempts
  /\ [][C9_ReturnsAfterLastItem]_vars
  /\ \A p \in Procs : (run[p].pc # "idle") ~> (run[p].pc = "idle")

\* an item has just failed with an exception and the run has gone on to the
\* next item of its list
C9_Witness ==
  /\ run["bg"].pc = "fetch"
  /\ run["bg"].last.fault # "none"
  /\ Len(run["bg"].attempted) = 2

\* C10 - Player-level skip: when the handling of an item has met a player
\* that no source resolves (and no exception from elsewhere), the item is
\* marked processed and each of its resolvable players has been merged, in
\* process_pending_news and in process_news_file alike.
C10_UnresolvedPlayerOnlySkipped ==
  \A p \in Procs :
    LET o == run[p].last IN
    o.item # NoItem /\ o.unresolved /\ o.fault \notin {"keyerror", "search", "load"}
      => o.item \in processed /\ o.complete

\* C11 - Denylist: the handling of an item whose extraction names a known
\* journalist and nobody else creates no player record and changes none, in
\* process_pending_news and in process_news_file alike.
C11_JournalistAloneMutatesNothing ==
  [][ \A p \in Procs :
        ( /\ run[p].pc \in {"fetch", "search", "detail"}
          /\ run'[p] # run[p]
          /\ \/ run[p].mentions = <<Mention(NameRomano)>>
             \/ run'[p].mentions = <<Mention(NameRomano)>> )
        => links' = links ]_vars

\* C12 - Persistence failures are surfaced: when the write of a player record
\* has failed during an invocation of process_pending_news, what the
\* invocation hands to its caller shows it (an error outcome or a count of
\* errors), not the value of a run in which nothing failed.
C12_WriteFailureSurfaced ==
  [][ \A p \in Runs :
        ( /\ run[p].pc # "idle" /\ run'[p].pc = "idle"
          /\ run[p].write_failed \/ run'[p].last.fault = "write" )
        => run'[p].returned # "None" ]_vars

\* ----------------------------------------- claims on the oracle boundary
\* C13 - Extraction failures are absorbed: for a failed call or an answer
\* that is not valid JSON, _analyze_with_gpt4 returns (it does not raise) a
\* result with an empty players list and no update field, and the merge of
\* that result leaves transfer_status, direction, timeline and related_clubs
\* of the record as they were.
C13_ExtractionFailureAbsorbed ==
  (call.fn = "analyze" /\ call.reply.kind # "json") =>
    /\ call.stage \in {"answered", "merged"} =>
         /\ call.result.error
         /\ call.result.players = <<>>
         /\ call.result.delta.transfer_status = Absent
         /\ call.result.delta.direction = Absent
         /\ call.result.delta.timeline.kind = "absent"
         /\ ~call.result.delta.related_clubs.present
    /\ call.stage = "merged" =>
         /\ call.updated.transfer_status = call.current.transfer_status
         /\ call.updated.direction = call.current.direction
         /\ call.updated.timeline = call.current.timeline
         /\ call.updated.related_clubs = call.current.related_clubs

\* the result for an answer that is not valid JSON has been merged into a
\* record that has a status above hearsay, an event and two equal clubs
C13_Witness ==
  /\ call.fn = "analyze" /\ call.stage = "merged" /\ call.reply.kind = "text"
  /\ call.current.transfer_status = "developing"
  /\ Len(call.current.timeline) = 1
  /\ Len(call.current.related_clubs) = 2

\* C15 - Merge idempotence on status and clubs: merging a delta into a
\* record twice with the same news id gives the transfer_status and the
\* related_clubs (same pairs, same order) that merging it once gives.
C15_SecondMergeKeepsStatusAndClubs ==
  (call.fn = "twice" /\ call.stage = "twice") =>
    /\ call.twice.transfer_status = call.once.transfer_status
    /\ call.twice.related_clubs = call.once.related_clubs

\* a delta that raised the status and changed the clubs has been merged
\* twice, and the timeline has grown both times
C15_Witness ==
  /\ call.fn = "twice" /\ call.stage = "twice"
  /\ call.once.transfer_status # call.current.transfer_status
  /\ call.once.related_clubs # call.current.related_clubs
  /\ Len(call.twice.timeline) > Len(call.once.timeline)
  /\ Len(call.once.timeline) > Len(call.current.timeline)

\* C14 - Partial batch failure: when an invocation of process_pending_news
\* that took three items returns and the oracle call failed for the second
\* item only, all three items are marked processed, the second item has been
\* merged into no record, and the first and the third have been merged into
\* the record of the player they name; the step in which the oracle call of
\* an item fails changes no player record and marks the item.
C14_PartialBatchFailure ==
  /\ [][ LET r == run["bg"]
             after == run'["bg"]
             items == r.unprocessed
         IN ( /\ r.pc # "idle" /\ after.pc = "idle"
              /\ Len(items) = 3
              /\ after.oracle_failed = {items[2]} )
            => /\ {items[1], items[2], items[3]} \subseteq processed'
               /\ \A k \in PlayerIds : <<items[2], k>> \notin r.inv_merged
               /\ \E k \in PlayerIds : <<items[1], k>> \in r.inv_merged
               /\ after.last.item = items[3]
               /\ after.last.fault = "none" /\ after.last.complete
               /\ \E k \in PlayerIds : links'[k].state = "ok" ]_vars
  /\ [][ \A p \in Runs :
           ( /\ run[p].pc = "fetch"
             /\ run'[p].oracle_failed # run[p].oracle_failed )
           => links' = links /\ run[p].item \in processed' ]_vars

\* the third item of an invocation is about to be merged; the first has
\* been merged and marked, the oracle call of the second has failed and the
\* second is marked
C14_Witness ==
  LET r == run["bg"] IN
  /\ r.pc = "detail" /\ Len(r.attempted) = 3
  /\ r.oracle_failed = {r.unprocessed[2]}
  /\ processed = {r.unprocessed[1], r.unprocessed[2]}
  /\ \E k \in PlayerIds : <<r.unprocessed[1], k>> \in r.inv_merged

\* C16 - News items are read-only after creation: no operation changes a
\* field of a news file once it is written; the processed-id set alone
\* records that an item has been handled.
C16_NewsFilesNeverChange == [][news' = news]_vars

\* ---------------------------------------------- claims on the resolver
\* C17 - Resolver precedence: _get_player_id returns the id given by the
\* first of persisted records, manual mappings, current squad and external
\* search that knows the name; a matching persisted record wins over
\* different ids of the other sources, and the external search is called
\* only when no local source knows the name.
C17_ResolverPrecedence ==
  (call.fn = "resolve" /\ call.stage = "answered") =>
    /\ call.result.id =
         ( IF call.persisted # NoId THEN call.persisted
           ELSE IF call.mapped # NoId THEN call.mapped
           ELSE IF call.squad # NoId THEN call.squad
           ELSE call.found )
    /\ call.result.searched <=>
         (call.persisted = NoId /\ call.mapped = NoId /\ call.squad = NoId)

\* a name stored under id 1 (in another spelling), mapped to 2, in the squad
\* as 3 and found by the search as 2 has been resolved
C17_Witness ==
  /\ call.fn = "resolve" /\ call.stage = "answered"
  /\ call.name = NameRose
  /\ call.persisted = 1 /\ call.mapped = 2 /\ call.squad = 3 /\ call.found = 2
  /\ call.result = [id |-> 1, searched |-> FALSE]

\* ------------------------------------------ claims on the football API search
\* C18 - Fuzzy-search threshold: when no team is given, as in the call made
\* by _get_player_id, the id taken from search_player's answer is that of a
\* highest-scoring candidate among all candidates returned for any search
\* term, provided its score is strictly greater than 0.6; when no candidate
\* scores above 0.6, a score of exactly 0.6 included, there is no match.
C18_FuzzySearchThreshold ==
  (call.fn = "search" /\ call.stage = "answered" /\ call.team_id = NoId) =>
    LET candidates == UNION { { call.api[t][i] : i \in 1..Len(call.api[t]) } :
                                t \in DOMAIN call.api }
        sc(id)     == score_player_match_v2(call.name, Directory[id])
        found      == FirstId(call.results)
    IN  IF \E id \in candidates : sc(id) > 60
        THEN /\ found \in candidates
             /\ \A id \in candidates : sc(id) <= sc(found)
        ELSE found = NoId

\* "Mathys Tel" was searched under two terms; the best candidate came with
\* the second term, behind one that scores exactly 0.6, and was returned
C18_Witness ==
  /\ call.fn = "search" /\ call.stage = "answered" /\ call.team_id = NoId
  /\ call.name = <<Mathys, Tel>>
  /\ Len(call.terms) = 2
  /\ call.api[call.terms[1]] = <<4, 2>>
  /\ call.api[call.terms[2]] = <<3, 1>>
  /\ score_player_match_v2(call.name, Directory[4]) = 60
  /\ [ i \in 1..Len(call.results) |-> call.results[i].id ] = <<1, 2, 3>>
  /\ FirstId(call.results) = 1

\* C19 - Roster match is the best match: with a team id, when roster entries
\* score above 0.5 the one entry returned has the highest score among them;
\* when none does, the answer is that of the external search.
C19_RosterBestMatch ==
  (call.fn = "search" /\ call.stage = "answered" /\ call.team_id # NoId) =>
    LET sc(id) == score_player_match_v2(call.name, Directory[id])
        hits   == { call.roster[i] : i \in 1..Len(call.roster) } \cap
                    { id \in 1..Len(Directory) : sc(id) > 50 }
    IN  IF hits # {}
        THEN /\ Len(call.results) = 1
             /\ call.results[1].id \in hits
             /\ \A id \in hits : sc(id) <= sc(call.results[1].id)
        ELSE call.results =
               IF SearchVariants(call.name) = {} THEN <<>>
               ELSE ExternalStep(call.name, call.api, call.terms)

\* C20 - Abbreviated-initial scoring: "M. Tel" against firstname "Mathys",
\* lastname "Tel" scores 0.95; "J. Smith" against a candidate whose lastname
\* is "Jones" scores below 0.6.
C20_AbbreviatedInitial ==
  (call.fn = "score" /\ call.stage = "answered") =>
    /\ ( call.name = <<MDot, Tel>> /\ call.player.firstname = Mathys
         /\ call.player.lastname = Tel )
         => call.score = 95
    /\ ( call.name = <<JDot, Smith>> /\ call.player.lastname = Jones )
         => call.score < 60

\* ------------------------------------- claims on the resolver's failures
\* C21 - The resolver never raises: whatever the roster read and the
\* external search do (answer with an id, answer with nothing, fail),
\* _get_player_id returns an id or None, and None for a name no source knows.
C21_ResolverNeverRaises ==
  (call.fn = "resolve_io" /\ call.stage = "answered") =>
    /\ ~call.result.raised
    /\ ( call.persisted = NoId /\ call.mapped = NoId
         /\ call.roster.id = NoId /\ call.search.id = NoId )
         => call.result.id = NoId

C23_NewRumorScenario ==
  ( /\ call.fn = "twice" /\ call.stage = "once"
    /\ call.current = NewPlayerData(1, NameRose)
    /\ call.new = [ transfer_status |-> "rumors", direction |-> Absent,
                    timeline |-> [kind |-> "absent", items |-> <<>>],
                    related_clubs |-> [present |-> TRUE, items |-> <<StrClub>>] ] )
  => /\ call.once.transfer_status = "rumors"
     /\ call.once.related_clubs = <<[name |-> StrClub.name, role |-> "interested"]>>
     /\ Len(call.once.timeline) = 1

\* C24 - String timeline suggestions are coerced: a bare string as the
\* timeline suggestion appends exactly one event with that text, a date and
\* the news id; so does a string inside a list of suggestions.
C24_StringTimelineCoerced ==
  (call.fn = "twice" /\ call.stage = "once") =>
    LET old == call.current.timeline
        new == call.once.timeline
        coerced(e, item) == /\ e.text = item.text /\ e.date = "now"
                            /\ e.news_ids = <<call.news_id>>
    IN  /\ call.new.timeline.kind = "str" =>
             /\ Len(new) = Len(old) + 1
             /\ coerced(new[Len(new)], call.new.timeline.items[1])
        /\ call.new.timeline.kind = "list" =>
             \A i \in 1..Len(call.new.timeline.items) :
               call.new.timeline.items[i].kind = "str" =>
                 /\ Len(new) >= Len(old) + i
                 /\ coerced(new[Len(old) + i], call.new.timeline.items[i])

C26_AbsentFieldsKeepState ==
  (call.fn = "twice" /\ call.stage = "once") =>
    /\ call.new.transfer_status = Absent =>
         call.once.transfer_status = call.current.transfer_status
    /\ call.new.direction = Absent => call.once.direction = call.current.direction
    /\ ~call.new.related_clubs.present =>
         call.once.related_clubs = call.current.related_clubs
    /\ call.new.timeline.kind = "absent" => call.once.timeline = call.current.timeline
    /\ call.new.direction # Absent => call.once.direction = call.new.direction

\* a record at "developing", incoming, with an event and duplicate clubs met
\* a delta that supplies only the direction "outgoing"
C26_Witness ==
  /\ call.fn = "twice" /\ call.stage = "once"
  /\ call.current.transfer_status = "developing"
  /\ call.current.direction = "incoming"
  /\ Len(call.current.timeline) = 1 /\ Len(call.current.related_clubs) = 2
  /\ call.new.transfer_status = Absent /\ call.new.direction = "outgoing"
  /\ call.new.timeline.kind = "absent" /\ ~call.new.related_clubs.present
  /\ call.once = [call.current EXCEPT !.direction = "outgoing"]

\* ------------------------------------------------ claims on the records
\* C27 - No automatic deletion: no step of process_pending_news,
\* process_news_file or link_news_to_player removes a persisted player
\* record; the set of stored player ids only grows, and a stored record
\* keeps its id.
C27_NoAutomaticDeletion ==
  [][ \A k \in PlayerIds :
        links[k].state # "absent" =>
          /\ links'[k].state # "absent"
          /\ links'[k].data.player_id = links[k].data.player_id ]_vars

\* two records are stored, one of them written by two operations
C27_Witness ==
  /\ Cardinality({ k \in PlayerIds : links[k].state = "ok" }) = 2
  /\ \E k \in PlayerIds : links[k].state = "ok" /\ Len(links[k].data.timeline) = 2
  /\ budget = 0

\* ------------------------------------------ claims on the Reddit monitor
\* C28 - Tier only improves: whatever flairs a post is seen with, the tier
\* stored in its news file never increases.
C28_StoredTierNeverIncreases ==
  [][ \A n \in DOMAIN news : news'[n].tier <= news[n].tier ]_vars

\* C29 - One news file per post: every Reddit post has at most one news
\* file, a post seen before is never reported as new, and a post whose flair
\* has no tier mapping creates no file and gets (None, False).
C29_OneNewsFilePerPost ==
  /\ [] ( /\ \A post \in PostIds :
               Cardinality({ n \in DOMAIN news : news[n].reddit_id = post }) <= 1
          /\ \A post \in DOMAIN processed_posts :
               news[processed_posts[post].news_id].reddit_id = post )
  /\ [][ call'.fn = "post" =>
          /\ ( \E n \in DOMAIN news : news[n].reddit_id = call'.post )
               => (~call'.is_new /\ DOMAIN news' = DOMAIN news)
          /\ call'.tier = NoTier
               => (call'.news_id = NoItem /\ ~call'.is_new /\ news' = news)
          /\ call'.is_new
               => /\ call'.news_id \notin DOMAIN news
                  /\ DOMAIN news' = DOMAIN news \cup {call'.news_id}
                  /\ news'[call'.news_id].reddit_id = call'.post ]_vars

\* three posts were seen, each has its file, and the last call was about
\* one of them seen again without a tier mapping
C29_Witness ==
  /\ DOMAIN processed_posts = PostIds
  /\ Cardinality(DOMAIN news) = 3
  /\ call = PostResult("p1", NoTier, NoItem, FALSE)

C31_LoopsSurviveErrors ==
  /\ [](\A l \in Loops : call.task[l] # "failed")
  /\ \A l \in Loops :
       (call.task[l] = "backoff") ~> (call.task[l] \in {"calling", "cancelled"})
  /\ [][ \A l \in Loops :
           /\ call.stopped[l] => ~(call.task[l] # "calling" /\ call'.task[l] = "calling")
           /\ call'.task[l] = "cancelled" => call.stopped[l] ]_vars

\* the monitor has iterated again after an error while the processor, which
\* stop() cancelled, has ended
C31_Witness ==
  /\ call.recovered["reddit_monitor"]
  /\ call.stopped["news_processor"] /\ call.task["news_processor"] = "cancelled"

\* C32 - Status stays in the enum: from a record whose transfer_status is
\* one of the four levels, every merge leaves it one of the four, whatever
\* string is suggested, and a suggestion outside the enum leaves the status
\* as it was.
C32_StatusStaysInEnum ==
  /\ [](cur.transfer_status \in DOMAIN TransferStatusRank)
  /\ [][ suggested' \notin DOMAIN TransferStatusRank \cup {Absent}
           => cur'.transfer_status = cur.transfer_status ]_vars

\* a record that reached "developing" has just been merged with the
\* suggestion "confirmed", which is not a level
C32_Witness ==
  /\ suggested = "confirmed"
  /\ cur.transfer_status = "developing"

\* ------------------------------------------------ claims on the player ids
\* C33 - Key matches identity: in every reachable state the record held by
\* links/player_<k>.json has player_id k, through record creation, merges,
\* update_player_id and the update-player-link endpoint with or without a
\* change of id.
C33_KeyMatchesIdentity ==
  \A k \in PlayerIds : links[k].state = "ok" => links[k].data.player_id = k

\* the record of Rose, created under id 1, now lies under id 3, next to the
\* record the background loop wrote for Tel
C33_Witness ==
  /\ links[1].state = "absent"
  /\ links[3].state = "ok" /\ links[3].data.canonical_name = NameRose
  /\ links[2].state = "ok" /\ links[2].data.timeline # <<>>

\* ------------------------------------------- claims on the timeline endpoint
\* C34 - Timeline deletion is exact and bounds-checked: on a stored record,
\* delete_timeline_event removes exactly the event at position event_index
\* when 0 <= event_index < len(timeline) and keeps the others in order; for
\* every other index the record is left unchanged and the answer is 404.
C34_DeletionExactAndBoundsChecked ==
  (call.fn = "delete_event" /\ call.stage = "answered"
     /\ call.file.exists /\ call.file.has_timeline)
  => LET tl == call.file.timeline
         i  == call.event_index
     IN  IF 0 <= i /\ i < Len(tl)
         THEN /\ call.result.file.timeline = RemoveAt(tl, i + 1)
              /\ call.result.status = 200
         ELSE /\ call.result.file = call.file
              /\ call.result.status = 404

\* ------------------------------------------------ claims on the normalizer
\* C35 - Normalization is idempotent: normalizing a normalized name yields
\* it again, for every name; the empty name normalizes to the empty name.
C35_NormalizationIdempotent ==
  (call.fn = "normalize" /\ call.stage = "answered")
  => /\ call.twice = call.once
     /\ call.name = <<>> => call.once = <<>>

\* ------------------------------------------------ claims on the API client
\* C36 - Bounded retry: _get makes at most 3 HTTP attempts per call, makes
\* another attempt only after a 429 answer, and on every failure path (a
\* request error, an empty or invalid payload, three 429 answers in a row)
\* returns an empty dict.
C36_BoundedRetry ==
  call.fn = "_get" =>
    /\ Len(call.answers) <= 3
    /\ \A i \in 1..(Len(call.answers) - 1) : call.answers[i].kind = "429"
    /\ (call.pc = "done" /\ call.answers[Len(call.answers)].kind # "payload")
         => call.returned = "{}"

====
